---- MODULE Spec2Model ----
(***************************************************************************)
(* TodoDOS (src/index.js): the terminal task list editor as a state        *)
(* machine.  Text is modelled as sequences of one-character strings so     *)
(* that trim, toLowerCase, includes, split, join, parseInt and the date    *)
(* conversions are computed the way the JavaScript computes them.          *)
(***************************************************************************)
EXTENDS Integers, Sequences, FiniteSets, TLC

\* ------------------------------------------------------------------ bounds
\* Largest task list the add dialogs are allowed to grow (interpreter runs).
MaxTasks == 2
\* Largest task list in the runs that explore the field dialogs.
MaxFieldTasks == 1

\* ------------------------------------------------------------ text helpers
UpperChars == <<"A","B","C","D","E","F","G","H","I","J","K","L","M",
                "N","O","P","Q","R","S","T","U","V","W","X","Y","Z">>
LowerChars == <<"a","b","c","d","e","f","g","h","i","j","k","l","m",
                "n","o","p","q","r","s","t","u","v","w","x","y","z">>
DigitChars == <<"0","1","2","3","4","5","6","7","8","9">>

UpperSet == {UpperChars[i] : i \in 1..26}
LowerOf == [c \in UpperSet |-> LowerChars[CHOOSE i \in 1..26 : UpperChars[i] = c]]

\* String.prototype.toLowerCase, one character
LowerChar(c) == IF c \in UpperSet THEN LowerOf[c] ELSE c

\* String.prototype.toLowerCase
toLowerCase(s) == [i \in 1..Len(s) |-> LowerChar(s[i])]

IsSpace(c) == c = " "

\* String.prototype.trim
trim(s) ==
  IF \A i \in 1..Len(s) : IsSpace(s[i]) THEN <<>>
  ELSE LET a == CHOOSE i \in 1..Len(s) :
                   ~IsSpace(s[i]) /\ \A j \in 1..(i-1) : IsSpace(s[j])
           b == CHOOSE i \in 1..Len(s) :
                   ~IsSpace(s[i]) /\ \A j \in (i+1)..Len(s) : IsSpace(s[j])
       IN  SubSeq(s, a, b)

\* String.prototype.includes
includes(s, t) ==
  \E i \in 0..(Len(s) - Len(t)) : SubSeq(s, i + 1, i + Len(t)) = t

\* String.prototype.split with a one-character separator
RECURSIVE split(_, _)
split(s, sep) ==
  IF \A i \in 1..Len(s) : s[i] # sep THEN <<s>>
  ELSE LET k == CHOOSE i \in 1..Len(s) :
                   s[i] = sep /\ \A j \in 1..(i-1) : s[j] # sep
       IN  <<SubSeq(s, 1, k - 1)>> \o split(SubSeq(s, k + 1, Len(s)), sep)

\* Array.prototype.join with a one-character separator
RECURSIVE join(_, _)
join(parts, sep) ==
  IF Len(parts) = 0 THEN <<>>
  ELSE IF Len(parts) = 1 THEN parts[1]
  ELSE parts[1] \o <<sep>> \o join(Tail(parts), sep)

IsDigit(c) == \E i \in 1..10 : DigitChars[i] = c
DigitVal(c) == (CHOOSE i \in 1..10 : DigitChars[i] = c) - 1
AllDigits(s) == \A i \in 1..Len(s) : IsDigit(s[i])

\* Number("0123"): the value of a string of decimal digits
RECURSIVE ToNumber(_)
ToNumber(s) ==
  IF Len(s) = 0 THEN 0
  ELSE 10 * ToNumber(SubSeq(s, 1, Len(s) - 1)) + DigitVal(s[Len(s)])

\* the longest prefix of s made of digits
RECURSIVE DigitPrefix(_)
DigitPrefix(s) ==
  IF Len(s) = 0 \/ ~IsDigit(s[1]) THEN <<>>
  ELSE <<s[1]>> \o DigitPrefix(Tail(s))

\* parseInt(s): leading white space, an optional sign, then decimal digits;
\* NaN when no digit follows.  (The model's inputs hold no 0x prefix.)
parseInt(s) ==
  LET t    == trim(s)
      neg  == Len(t) > 0 /\ t[1] = "-"
      body == IF Len(t) > 0 /\ t[1] \in {"-", "+"} THEN Tail(t) ELSE t
      ds   == DigitPrefix(body)
  IN  IF Len(ds) = 0 THEN [nan |-> TRUE, val |-> 0]
      ELSE [nan |-> FALSE, val |-> IF neg THEN 0 - ToNumber(ds) ELSE ToNumber(ds)]

\* n.toString().padStart(w, "0") for 0 <= n < 10^w
RECURSIVE Pad(_, _)
Pad(n, w) ==
  IF w = 0 THEN <<>> ELSE Pad(n \div 10, w - 1) \o <<DigitChars[(n % 10) + 1]>>

\* ------------------------------------------------------------------- Date
\* Day number (days since 1970-01-01) of a proleptic Gregorian date: the
\* arithmetic of the Date constructor (MakeDay), month in 1..12.
days_from_civil(y, m, d) ==
  LET yy  == IF m <= 2 THEN y - 1 ELSE y
      era == yy \div 400
      yoe == yy - era * 400
      doy == (153 * (IF m > 2 THEN m - 3 ELSE m + 9) + 2) \div 5 + d - 1
      doe == yoe * 365 + yoe \div 4 - yoe \div 100 + doy
  IN  era * 146097 + doe - 719468

\* The calendar date of a day number: the arithmetic behind toISOString.
civil_from_days(z) ==
  LET zz  == z + 719468
      era == zz \div 146097
      doe == zz - era * 146097
      yoe == (doe - doe \div 1460 + doe \div 36524 - doe \div 146096) \div 365
      doy == doe - (365 * yoe + yoe \div 4 - yoe \div 100)
      mp  == (5 * doy + 2) \div 153
      d   == doy - (153 * mp + 2) \div 5 + 1
      m   == IF mp < 10 THEN mp + 3 ELSE mp - 9
      y   == yoe + era * 400
  IN  [year |-> IF m <= 2 THEN y + 1 ELSE y, month |-> m, day |-> d]

\* A Date value: NaN, or a time in hours since the epoch (UTC).
InvalidDate == [nan |-> TRUE, hours |-> 0]

\* new Date("YYYY-MM-DD"): a date-only ISO string is UTC midnight.  V8 takes
\* a month in 1..12 and a day in 1..31 and lets the day run over the end of
\* the month; anything else is an Invalid Date.
DateFromISO(s) ==
  LET y == ToNumber(SubSeq(s, 1, 4))
      m == ToNumber(SubSeq(s, 6, 7))
      d == ToNumber(SubSeq(s, 9, 10))
  IN  IF m \in 1..12 /\ d \in 1..31
      THEN [nan |-> FALSE, hours |-> 24 * days_from_civil(y, m, d)]
      ELSE InvalidDate

\* new Date(year, monthIndex, day): local midnight, with month and day
\* overflow carried into the year and month; tzHours is the zone's offset
\* east of UTC.  Years 0..99 mean 1900..1999.
DateLocal(year, monthIndex, day, tzHours) ==
  LET fy == IF year \in 0..99 THEN 1900 + year ELSE year
      ym == fy + (monthIndex \div 12)
      mn == monthIndex % 12
  IN  [nan |-> FALSE,
       hours |-> 24 * (days_from_civil(ym, mn + 1, 1) + day - 1) - tzHours]

\* date.toISOString().split('T')[0]
toISODate(date) ==
  LET c == civil_from_days(date.hours \div 24)
  IN  Pad(c.year, 4) \o <<"-">> \o Pad(c.month, 2) \o <<"-">> \o Pad(c.day, 2)

\* /^\d{4}-\d{2}-\d{2}$/
MatchISO(s) ==
  /\ Len(s) = 10
  /\ s[5] = "-" /\ s[8] = "-"
  /\ \A i \in {1, 2, 3, 4, 6, 7, 9, 10} : IsDigit(s[i])

\* /^\d{1,2}\.\d{1,2}\.\d{4}$/
MatchDMY(s) ==
  LET p == split(s, ".")
  IN  /\ Len(p) = 3
      /\ \A i \in 1..3 : AllDigits(p[i])
      /\ Len(p[1]) \in 1..2 /\ Len(p[2]) \in 1..2 /\ Len(p[3]) = 4

\* /^\d{1,2}\.\d{1,2}$/
MatchDM(s) ==
  LET p == split(s, ".")
  IN  /\ Len(p) = 2
      /\ \A i \in 1..2 : AllDigits(p[i])
      /\ Len(p[1]) \in 1..2 /\ Len(p[2]) \in 1..2

\* The parse of a trimmed, non-empty due-date entry (handleAddTask and
\* handleEditTask hold the same code): the Date, or InvalidDate where the
\* code is left with null or an Invalid Date.
parsedDate(dateStr, currentYear, tzHours) ==
  IF MatchISO(dateStr) THEN DateFromISO(dateStr)
  ELSE IF MatchDMY(dateStr)
  THEN LET p == split(dateStr, ".")
       IN  DateLocal(ToNumber(p[3]), ToNumber(p[2]) - 1, ToNumber(p[1]), tzHours)
  ELSE IF MatchDM(dateStr)
  THEN LET p == split(dateStr, ".")
       IN  DateLocal(currentYear, ToNumber(p[2]) - 1, ToNumber(p[1]), tzHours)
  ELSE InvalidDate

\* ------------------------------------------------------------------ words
offen    == <<"o","f","f","e","n">>
erledigt == <<"e","r","l","e","d","i","g","t">>
normal   == <<"n","o","r","m","a","l">>
hoch     == <<"h","o","c","h">>
niedrig  == <<"n","i","e","d","r","i","g">>
keine    == <<"k","e","i","n","e">>
KeineBeschreibung == <<"K","e","i","n","e"," ","B","e","s","c","h","r","e","i","b","u","n","g">>
validPriorities == {normal, hoch, niedrig}

\* ---------------------------------------------------------------- the state
VARIABLES
  tasks,          \* let tasks: the task list
  selectedIndex,  \* let selectedIndex: 0-based
  view,           \* let view
  searchTerm,     \* let searchTerm
  doc,            \* let doc: "undefined", "unloaded" (created, loadInfo failed) or "loaded"
  sheet,          \* the data rows of the remote sheet
  tz,             \* the process's time zone, hours east of UTC
  pc,             \* where the interpreter waits: "prompt", a sub-prompt, or stopped
  local,          \* what the add dialog's closures hold between sub-prompts
  out,            \* the messages printed during the current turn
  details,        \* the tasks dumped by renderDetailsView during the current turn
  inFlight,       \* the handleCommand calls entered and not yet returned
  exitCode        \* the process's exit code once it has exited, else -1

vars == <<tasks, selectedIndex, view, searchTerm, doc, sheet, tz, pc, local, out,
          details, inFlight, exitCode>>

NoLocal == [title |-> <<>>, priority |-> <<>>, dueDate |-> <<>>]

\* ------------------------------------------------------------- TaskStore
\* addTask(title, priority, dueDate, tags)
addTask(ts, title, priority, dueDate, tags) ==
  Append(ts, [id |-> Len(ts) + 1, title |-> title, status |-> offen,
              priority |-> priority, dueDate |-> dueDate, tags |-> tags])

\* the removal taking the last task whatever the index
splice1_RemovesLast(ts, index) == SubSeq(ts, 1, Len(ts) - 1)

\* tasks.splice(index, 1): a negative index counts from the end
splice1(ts, index) ==
  LET start == IF index < 0 THEN (IF Len(ts) + index < 0 THEN 0 ELSE Len(ts) + index)
               ELSE index
  IN  IF start >= Len(ts) THEN ts
      ELSE SubSeq(ts, 1, start) \o SubSeq(ts, start + 2, Len(ts))

\* tasks.forEach((task, i) => task.id = i + 1)
reindex(ts) == [i \in 1..Len(ts) |-> [ts[i] EXCEPT !.id = i]]

\* deleteTask with the renumbering of the ids left out
deleteTask_NoReindex(ts, index) == splice1(ts, index)

\* deleteTask(index)
deleteTask(ts, index) == reindex(splice1(ts, index))

\* completeTask(index), index within the list
completeTask(ts, index) ==
  [ts EXCEPT ![index + 1].status =
     IF ts[index + 1].status = erledigt THEN offen ELSE erledigt]

\* the filter with title and term compared as they are, case and all
filteredTasks_CaseSensitive(ts, term) ==
  IF Len(term) > 0
  THEN SelectSeq(ts, LAMBDA t : includes(t.title, term))
  ELSE ts

\* The filtered view renderMainView draws.
filteredTasks(ts, term) ==
  IF Len(term) > 0
  THEN SelectSeq(ts, LAMBDA t : includes(toLowerCase(t.title), toLowerCase(term)))
  ELSE ts

Min(a, b) == IF a < b THEN a ELSE b
Max(a, b) == IF a > b THEN a ELSE b

\* ----------------------------------------------------- PersistenceGateway
\* tags cell -> tags: split(',').filter(tag => tag.trim().length > 0)
tagsFromCell(cell) == SelectSeq(split(cell, ","), LAMBDA tag : Len(trim(tag)) > 0)

\* rows.map((row, index) => ({...})) of loadTasks; an empty cell is falsy
tasksFromRows(rows) ==
  [i \in 1..Len(rows) |->
     [id       |-> i,
      title    |-> IF rows[i].title = <<>> THEN KeineBeschreibung ELSE rows[i].title,
      status   |-> IF rows[i].status = <<>> THEN offen ELSE rows[i].status,
      priority |-> IF rows[i].priority = <<>> THEN normal ELSE rows[i].priority,
      dueDate  |-> rows[i].dueDate,
      tags     |-> tagsFromCell(rows[i].tags)]]

\* tasks.map(task => ({...})) of saveTasks
rowsFromTasks(ts) ==
  [i \in 1..Len(ts) |->
     [title |-> ts[i].title, status |-> ts[i].status, priority |-> ts[i].priority,
      dueDate |-> ts[i].dueDate, tags |-> join(ts[i].tags, ",")]]

\* --------------------------------------------------- the command table
quitAliases    == {<<"q","u","i","t">>, <<"q">>, <<"e","x","i","t">>}
helpAliases    == {<<"h","e","l","p">>, <<"h">>}
addAliases     == {<<"a","d","d">>, <<"a">>}
quickAliases   == {<<"q","u","i","c","k">>, <<"q","a">>}
deleteAliases  == {<<"d","e","l","e","t","e">>, <<"d">>}
editAliases    == {<<"e","d","i","t">>, <<"e">>}
toggleAliases  == {<<"t","o","g","g","l","e">>, <<"t">>, <<"s","p","a","c","e">>}
saveAliases    == {<<"s","a","v","e">>, <<"s">>}
reloadAliases  == {<<"r","e","l","o","a","d">>, <<"r">>}
searchAliases  == {<<"s","e","a","r","c","h">>, <<"/">>}
detailsAliases == {<<"d","e","t","a","i","l","s">>, <<"s","h","o","w">>}
upAliases      == {<<"u","p">>, <<"k">>}
downAliases    == {<<"d","o","w","n">>, <<"j">>}
homeAliases    == {<<"h","o","m","e">>}
endAliases     == {<<"e","n","d">>}
clearAliases   == {<<"c","l","e","a","r">>}
caseLabels ==
  quitAliases \cup helpAliases \cup addAliases \cup quickAliases \cup deleteAliases
  \cup editAliases \cup toggleAliases \cup saveAliases \cup reloadAliases
  \cup searchAliases \cup detailsAliases \cup upAliases \cup downAliases
  \cup homeAliases \cup endAliases \cup clearAliases

\* switch (command): handleCommand is entered from the main prompt and the
\* command selects the case
Accept(command, aliases) ==
  /\ pc = "prompt"
  /\ command \in aliases
  /\ details' = <<>>

\* handleCommand is entered and awaits: a sub-prompt's answer or a sheet call
Enter == inFlight' = inFlight + 1

\* the awaited promise has settled and handleCommand runs to its end
Leave == inFlight' = inFlight - 1

\* renderMainView(); showPrompt(): the turn's normal end
RenderAndPrompt(msgs) ==
  /\ out' = msgs \cup {"main_view"}
  /\ pc' = "prompt"

\* the catch block of handleCommand: the error line, then showPrompt() only
CatchAndPrompt(msgs) ==
  /\ out' = msgs \cup {"error"}
  /\ pc' = "prompt"

\* ----------------------------------------------------------- startup
\* What loadTasks leaves in tasks and prints; ok is whether the sheet calls
\* succeed.
loadTasks(ts, d, rows, ok) ==
  IF d = "undefined" THEN [tasks |-> ts, msgs |-> {"load_no_connection"}]
  ELSE IF d = "loaded" /\ ok
  THEN [tasks |-> tasksFromRows(rows), msgs |-> {"loaded"}]
  ELSE [tasks |-> <<>>, msgs |-> {"load_error"}]

\* main(): connectToSheet, loadTasks when connected, first render and prompt
Main ==
  /\ pc = "start"
  /\ \E conn \in {"undefined", "unloaded", "loaded"}, ok \in BOOLEAN :
       LET r == loadTasks(tasks, conn, sheet, ok)
       IN  /\ doc' = conn
           /\ tasks' = IF conn = "loaded" THEN r.tasks ELSE tasks
           /\ RenderAndPrompt(IF conn = "loaded" THEN r.msgs ELSE {"not_connected"})
  /\ UNCHANGED <<selectedIndex, view, searchTerm, sheet, tz, local, details, exitCode, inFlight>>

\* ------------------------------------------------------ simple commands
\* case 'quit' with the tasks saved on the way out
CmdQuit_SavesFirst(command) ==
  /\ Accept(command, quitAliases)
  /\ pc' = "exited"
  /\ exitCode' = 0
  /\ out' = {"bye"}
  /\ Enter
  /\ sheet' = IF doc = "loaded" THEN rowsFromTasks(tasks) ELSE sheet
  /\ UNCHANGED <<tasks, selectedIndex, view, searchTerm, doc, tz, local>>

\* case 'quit': process.exit(0)
CmdQuit(command) ==
  /\ Accept(command, quitAliases)
  /\ pc' = "exited"
  /\ exitCode' = 0
  /\ out' = {"bye"}
  /\ Enter
  /\ UNCHANGED <<tasks, selectedIndex, view, searchTerm, doc, sheet, tz, local>>

\* case 'help': showHelp()
CmdHelp(command) ==
  /\ Accept(command, helpAliases)
  /\ RenderAndPrompt({"help"})
  /\ UNCHANGED <<tasks, selectedIndex, view, searchTerm, doc, sheet, tz, local, exitCode, inFlight>>

\* case 'delete': handleDeleteTask()
CmdDelete(command) ==
  /\ Accept(command, deleteAliases)
  /\ IF Len(tasks) = 0
     THEN /\ RenderAndPrompt({"nothing_to_delete"})
          /\ UNCHANGED <<tasks, selectedIndex>>
     ELSE IF selectedIndex >= 0 /\ selectedIndex < Len(tasks)
     THEN /\ tasks' = deleteTask(tasks, selectedIndex)
          /\ selectedIndex' = Min(selectedIndex, Len(tasks') - 1)
          /\ RenderAndPrompt({"deleted"})
     ELSE /\ RenderAndPrompt({})
          /\ UNCHANGED <<tasks, selectedIndex>>
  /\ UNCHANGED <<view, searchTerm, doc, sheet, tz, local, exitCode, inFlight>>

\* case 'toggle': handleToggleTask(); tasks[-1] is undefined, so
\* completeTask throws a TypeError that handleCommand catches
CmdToggle(command) ==
  /\ Accept(command, toggleAliases)
  /\ IF Len(tasks) = 0 \/ selectedIndex >= Len(tasks)
     THEN /\ RenderAndPrompt({"no_toggle_selected"})
          /\ UNCHANGED tasks
     ELSE IF selectedIndex < 0
     THEN /\ CatchAndPrompt({})
          /\ UNCHANGED tasks
     ELSE /\ tasks' = completeTask(tasks, selectedIndex)
          /\ RenderAndPrompt({"toggled"})
  /\ UNCHANGED <<selectedIndex, view, searchTerm, doc, sheet, tz, local, exitCode, inFlight>>

\* case 'reload': await loadTasks(), then the "reloaded" line whatever came.
\* Without a loaded document loadTasks settles before any event can arrive;
\* with one, handleCommand is suspended while the sheet calls are under way.
CmdReload(command) ==
  /\ Accept(command, reloadAliases)
  /\ IF doc # "loaded"
     THEN LET r == loadTasks(tasks, doc, sheet, FALSE)
          IN  /\ tasks' = r.tasks
              /\ RenderAndPrompt(r.msgs \cup {"reloaded"})
              /\ UNCHANGED inFlight
     ELSE /\ pc' = "loading"
          /\ out' = {}
          /\ Enter
          /\ UNCHANGED tasks
  /\ UNCHANGED <<selectedIndex, view, searchTerm, doc, sheet, tz, local, exitCode>>

\* the reload case with a failed sheet call treated as fatal: exit code 1
LoadSettles_Fatal ==
  /\ pc = "loading"
  /\ \E ok \in BOOLEAN :
       LET r == loadTasks(tasks, doc, sheet, ok)
       IN  /\ tasks' = r.tasks
           /\ IF ok
              THEN RenderAndPrompt(r.msgs \cup {"reloaded"}) /\ UNCHANGED exitCode
              ELSE pc' = "crashed" /\ out' = r.msgs /\ exitCode' = 1
  /\ Leave
  /\ UNCHANGED <<selectedIndex, view, searchTerm, doc, sheet, tz, local, details>>

\* the sheet calls of loadTasks settle, for better or worse, and the reload
\* case runs on
LoadSettles ==
  /\ pc = "loading"
  /\ \E ok \in BOOLEAN :
       LET r == loadTasks(tasks, doc, sheet, ok)
       IN  /\ tasks' = r.tasks
           /\ RenderAndPrompt(r.msgs \cup {"reloaded"})
  /\ Leave
  /\ UNCHANGED <<selectedIndex, view, searchTerm, doc, sheet, tz, local, details, exitCode>>

\* case 'save' with saveTasks() called and not awaited: the prompt is issued
\* while the sheet calls are still under way
CmdSave_NotAwaited(command) ==
  /\ Accept(command, saveAliases)
  /\ IF doc = "undefined"
     THEN /\ RenderAndPrompt({"save_no_connection"})
          /\ UNCHANGED inFlight
     ELSE IF doc = "unloaded"
     THEN /\ RenderAndPrompt({"save_error"})
          /\ UNCHANGED inFlight
     ELSE /\ RenderAndPrompt({})
          /\ Enter
  /\ UNCHANGED <<tasks, selectedIndex, view, searchTerm, doc, sheet, tz, local, exitCode>>

\* case 'save': await saveTasks().  Without a loaded document saveTasks
\* settles at once; with one, handleCommand is suspended meanwhile.  A failure
\* may come before any row is deleted, between two deletions (rows go last to
\* first) or at addRows.
CmdSave(command) ==
  /\ Accept(command, saveAliases)
  /\ IF doc = "undefined"
     THEN /\ RenderAndPrompt({"save_no_connection"})
          /\ UNCHANGED inFlight
     ELSE IF doc = "unloaded"
     THEN /\ RenderAndPrompt({"save_error"})
          /\ UNCHANGED inFlight
     ELSE /\ pc' = "saving"
          /\ out' = {}
          /\ Enter
  /\ UNCHANGED <<tasks, selectedIndex, view, searchTerm, doc, sheet, tz, local, exitCode>>

\* saveTasks adding the rows without deleting the ones that are there
SaveSettles_Appends ==
  /\ pc = "saving"
  /\ \/ /\ sheet' = sheet \o rowsFromTasks(tasks)
        /\ RenderAndPrompt({"saved"})
     \/ \E k \in 0..Len(sheet) :
          /\ sheet' = SubSeq(sheet, 1, k)
          /\ RenderAndPrompt({"save_error"})
  /\ Leave
  /\ UNCHANGED <<tasks, selectedIndex, view, searchTerm, doc, tz, local, details, exitCode>>

\* the sheet calls of saveTasks settle: every row deleted and the tasks
\* added, or a failure that leaves the first k rows standing
SaveSettles ==
  /\ pc = "saving"
  /\ \/ /\ sheet' = rowsFromTasks(tasks)
        /\ RenderAndPrompt({"saved"})
     \/ \E k \in 0..Len(sheet) :
          /\ sheet' = SubSeq(sheet, 1, k)
          /\ RenderAndPrompt({"save_error"})
  /\ Leave
  /\ UNCHANGED <<tasks, selectedIndex, view, searchTerm, doc, tz, local, details, exitCode>>

\* A line typed while handleCommand awaits the sheet: no question is
\* pending, so readline hands it to nobody.
LineDropped ==
  /\ pc \in {"loading", "saving"}
  /\ UNCHANGED vars

\* case 'details': renderDetailsView(); with selectedIndex -1 the task is
\* undefined and task.id throws into handleCommand's catch
CmdDetails(command) ==
  /\ pc = "prompt"
  /\ command \in detailsAliases
  /\ IF Len(tasks) = 0 \/ selectedIndex >= Len(tasks)
     THEN /\ RenderAndPrompt({"no_details_selected"})
          /\ details' = <<>>
     ELSE IF selectedIndex < 0
     THEN /\ CatchAndPrompt({})
          /\ details' = <<>>
     ELSE /\ details' = <<tasks[selectedIndex + 1]>>
          /\ RenderAndPrompt({"details"})
  /\ UNCHANGED <<tasks, selectedIndex, view, searchTerm, doc, sheet, tz, local, exitCode, inFlight>>

\* case 'up'
CmdUp(command) ==
  /\ Accept(command, upAliases)
  /\ selectedIndex' = Max(0, selectedIndex - 1)
  /\ RenderAndPrompt({})
  /\ UNCHANGED <<tasks, view, searchTerm, doc, sheet, tz, local, exitCode, inFlight>>

\* case 'down'
CmdDown(command) ==
  /\ Accept(command, downAliases)
  /\ selectedIndex' = Min(Len(tasks) - 1, selectedIndex + 1)
  /\ RenderAndPrompt({})
  /\ UNCHANGED <<tasks, view, searchTerm, doc, sheet, tz, local, exitCode, inFlight>>

\* case 'home'
CmdHome(command) ==
  /\ Accept(command, homeAliases)
  /\ selectedIndex' = 0
  /\ RenderAndPrompt({})
  /\ UNCHANGED <<tasks, view, searchTerm, doc, sheet, tz, local, exitCode, inFlight>>

\* case 'end'
CmdEnd(command) ==
  /\ Accept(command, endAliases)
  /\ selectedIndex' = Max(0, Len(tasks) - 1)
  /\ RenderAndPrompt({})
  /\ UNCHANGED <<tasks, view, searchTerm, doc, sheet, tz, local, exitCode, inFlight>>

\* case 'clear'
CmdClear(command) ==
  /\ Accept(command, clearAliases)
  /\ searchTerm' = <<>>
  /\ RenderAndPrompt({"search_cleared"})
  /\ UNCHANGED <<tasks, selectedIndex, view, doc, sheet, tz, local, exitCode, inFlight>>

\* default: empty input, a number to jump to, or an unknown command
CmdDefault(input, command) ==
  /\ pc = "prompt"
  /\ command \notin caseLabels
  /\ details' = <<>>
  /\ IF trim(input) = <<>>
     THEN /\ RenderAndPrompt({})
          /\ UNCHANGED selectedIndex
     ELSE IF ~parseInt(command).nan
     THEN LET num == parseInt(command).val - 1
          IN  IF num >= 0 /\ num < Len(tasks)
              THEN /\ selectedIndex' = num
                   /\ RenderAndPrompt({"jumped"})
              ELSE /\ RenderAndPrompt({"invalid_number"})
                   /\ UNCHANGED selectedIndex
     ELSE /\ RenderAndPrompt({"unknown_command"})
          /\ UNCHANGED selectedIndex
  /\ UNCHANGED <<tasks, view, searchTerm, doc, sheet, tz, local, exitCode, inFlight>>

\* -------------------------------------------------------- the dialogs
\* priority.trim().toLowerCase() || 'normal'
taskPriority(priority) ==
  IF toLowerCase(trim(priority)) = <<>> THEN normal ELSE toLowerCase(trim(priority))

\* The due date an entry is turned into: [ok, value].  ok is FALSE where the
\* code prints its "invalid date" warning and keeps what it had.
formattedDate(dueDate, currentYear, tzHours) ==
  LET d == parsedDate(trim(dueDate), currentYear, tzHours)
  IN  IF d.nan THEN [ok |-> FALSE, value |-> <<>>]
      ELSE [ok |-> TRUE, value |-> toISODate(d)]

\* tags.split(',').map(tag => tag.trim()).filter(tag => tag.length > 0)
tagList(tags) ==
  LET parts == split(tags, ",")
  IN  SelectSeq([i \in 1..Len(parts) |-> trim(parts[i])], LAMBDA tag : Len(tag) > 0)

\* tags.trim() ? tagList : []
taskTags(tags) == IF trim(tags) = <<>> THEN <<>> ELSE tagList(tags)

\* case 'add': handleAddTask() asks for the title
CmdAdd(command) ==
  /\ Accept(command, addAliases)
  /\ pc' = "add_title"
  /\ out' = {"add_header"}
  /\ Enter
  /\ UNCHANGED <<tasks, selectedIndex, view, searchTerm, doc, sheet, tz, local, exitCode>>

\* the title callback with the title tested untrimmed (if (!title))
AddTitle_Untrimmed(title) ==
  /\ pc = "add_title"
  /\ title = <<>> \/ Len(tasks) < MaxTasks
  /\ IF title = <<>>
     THEN /\ RenderAndPrompt(out \cup {"aborted_no_title"})
          /\ Leave
          /\ UNCHANGED local
     ELSE /\ local' = [local EXCEPT !.title = title]
          /\ pc' = "add_priority"
          /\ UNCHANGED <<out, inFlight>>
  /\ UNCHANGED <<tasks, selectedIndex, view, searchTerm, doc, sheet, tz, details, exitCode>>

\* the title callback of handleAddTask
AddTitle(title) ==
  /\ pc = "add_title"
  /\ trim(title) = <<>> \/ Len(tasks) < MaxTasks
  /\ IF trim(title) = <<>>
     THEN /\ RenderAndPrompt(out \cup {"aborted_no_title"})
          /\ Leave
          /\ UNCHANGED local
     ELSE /\ local' = [local EXCEPT !.title = title]
          /\ pc' = "add_priority"
          /\ UNCHANGED <<out, inFlight>>
  /\ UNCHANGED <<tasks, selectedIndex, view, searchTerm, doc, sheet, tz, details, exitCode>>

\* the priority callback of handleAddTask
AddPriority(priority) ==
  /\ pc = "add_priority"
  /\ local' = [local EXCEPT !.priority = taskPriority(priority)]
  /\ out' = IF taskPriority(priority) \in validPriorities THEN out
            ELSE out \cup {"invalid_priority"}
  /\ pc' = "add_due"
  /\ UNCHANGED <<tasks, selectedIndex, view, searchTerm, doc, sheet, tz, details, exitCode, inFlight>>

\* the due-date callback of handleAddTask
AddDueDate(dueDate, currentYear) ==
  /\ pc = "add_due"
  /\ LET f == formattedDate(dueDate, currentYear, tz)
     IN  IF trim(dueDate) = <<>>
         THEN UNCHANGED <<local, out>>
         ELSE IF f.ok
         THEN /\ local' = [local EXCEPT !.dueDate = f.value]
              /\ UNCHANGED out
         ELSE /\ out' = out \cup {"invalid_date"}
              /\ UNCHANGED local
  /\ pc' = "add_tags"
  /\ UNCHANGED <<tasks, selectedIndex, view, searchTerm, doc, sheet, tz, details, exitCode, inFlight>>

\* the tags callback of handleAddTask: addTask(...), then the turn ends
AddTags(tags) ==
  /\ pc = "add_tags"
  /\ tasks' = addTask(tasks, trim(local.title),
                      IF local.priority \in validPriorities THEN local.priority ELSE normal,
                      local.dueDate, taskTags(tags))
  /\ local' = NoLocal
  /\ RenderAndPrompt(out \cup {"added"})
  /\ Leave
  /\ UNCHANGED <<selectedIndex, view, searchTerm, doc, sheet, tz, details, exitCode>>

\* case 'quick': handleQuickAdd() asks for the title
CmdQuick(command) ==
  /\ Accept(command, quickAliases)
  /\ pc' = "quick_title"
  /\ out' = {"quick_header"}
  /\ Enter
  /\ UNCHANGED <<tasks, selectedIndex, view, searchTerm, doc, sheet, tz, local, exitCode>>

\* the title callback of handleQuickAdd
QuickTitle(title) ==
  /\ pc = "quick_title"
  /\ trim(title) = <<>> \/ Len(tasks) < MaxTasks
  /\ IF trim(title) = <<>>
     THEN /\ RenderAndPrompt(out \cup {"aborted_no_title"})
          /\ UNCHANGED tasks
     ELSE /\ tasks' = addTask(tasks, trim(title), normal, <<>>, <<>>)
          /\ RenderAndPrompt(out \cup {"quick_added"})
  /\ Leave
  /\ UNCHANGED <<selectedIndex, view, searchTerm, doc, sheet, tz, local, details, exitCode>>

\* case 'edit': handleEditTask().  With selectedIndex -1 the task is
\* undefined: task.title throws inside the async Promise executor, the
\* promise handleCommand awaits never settles, and the rejection is unhandled
\* (the process dies with code 1, or, on a Node that only warns, hangs).
CmdEdit(command) ==
  /\ Accept(command, editAliases)
  /\ IF Len(tasks) = 0 \/ selectedIndex >= Len(tasks)
     THEN /\ RenderAndPrompt({"no_edit_selected"})
          /\ UNCHANGED <<exitCode, inFlight>>
     ELSE IF selectedIndex < 0
     THEN /\ out' = {}
          /\ Enter
          /\ \E end \in {"hung", "crashed"} :
               /\ pc' = end
               /\ exitCode' = IF end = "crashed" THEN 1 ELSE exitCode
     ELSE /\ pc' = "edit_title"
          /\ out' = {"edit_header"}
          /\ Enter
          /\ UNCHANGED exitCode
  /\ UNCHANGED <<tasks, selectedIndex, view, searchTerm, doc, sheet, tz, local>>

\* the title callback of handleEditTask
EditTitle(newTitle) ==
  /\ pc = "edit_title"
  /\ tasks' = IF trim(newTitle) # <<>>
              THEN [tasks EXCEPT ![selectedIndex + 1].title = trim(newTitle)]
              ELSE tasks
  /\ pc' = "edit_priority"
  /\ UNCHANGED <<selectedIndex, view, searchTerm, doc, sheet, tz, local, out, details, exitCode, inFlight>>

\* the priority callback of handleEditTask
EditPriority(newPriority) ==
  /\ pc = "edit_priority"
  /\ tasks' = IF trim(newPriority) # <<>> /\ toLowerCase(trim(newPriority)) \in validPriorities
              THEN [tasks EXCEPT ![selectedIndex + 1].priority = toLowerCase(trim(newPriority))]
              ELSE tasks
  /\ pc' = "edit_due"
  /\ UNCHANGED <<selectedIndex, view, searchTerm, doc, sheet, tz, local, out, details, exitCode, inFlight>>

\* the due-date callback of handleEditTask
EditDueDate(newDueDate, currentYear) ==
  /\ pc = "edit_due"
  /\ LET f == formattedDate(newDueDate, currentYear, tz)
     IN  IF trim(newDueDate) = <<>>
         THEN UNCHANGED <<tasks, out>>
         ELSE IF toLowerCase(trim(newDueDate)) = keine
         THEN /\ tasks' = [tasks EXCEPT ![selectedIndex + 1].dueDate = <<>>]
              /\ UNCHANGED out
         ELSE IF f.ok
         THEN /\ tasks' = [tasks EXCEPT ![selectedIndex + 1].dueDate = f.value]
              /\ UNCHANGED out
         ELSE /\ out' = out \cup {"invalid_date"}
              /\ UNCHANGED tasks
  /\ pc' = "edit_tags"
  /\ UNCHANGED <<selectedIndex, view, searchTerm, doc, sheet, tz, local, details, exitCode, inFlight>>

\* the tags callback with the clear word compared as typed, case and all
EditTags_CaseSensitive(newTags) ==
  /\ pc = "edit_tags"
  /\ tasks' = IF trim(newTags) = <<>> THEN tasks
              ELSE IF trim(newTags) = keine
              THEN [tasks EXCEPT ![selectedIndex + 1].tags = <<>>]
              ELSE [tasks EXCEPT ![selectedIndex + 1].tags = tagList(newTags)]
  /\ RenderAndPrompt(out \cup {"updated"})
  /\ Leave
  /\ UNCHANGED <<selectedIndex, view, searchTerm, doc, sheet, tz, local, details, exitCode>>

\* the tags callback of handleEditTask, then the turn ends
EditTags(newTags) ==
  /\ pc = "edit_tags"
  /\ tasks' = IF trim(newTags) = <<>> THEN tasks
              ELSE IF toLowerCase(trim(newTags)) = keine
              THEN [tasks EXCEPT ![selectedIndex + 1].tags = <<>>]
              ELSE [tasks EXCEPT ![selectedIndex + 1].tags = tagList(newTags)]
  /\ RenderAndPrompt(out \cup {"updated"})
  /\ Leave
  /\ UNCHANGED <<selectedIndex, view, searchTerm, doc, sheet, tz, local, details, exitCode>>

\* case 'search': handleSearch() asks for the term
CmdSearch(command) ==
  /\ Accept(command, searchAliases)
  /\ pc' = "search_term"
  /\ out' = {"search_header"}
  /\ Enter
  /\ UNCHANGED <<tasks, selectedIndex, view, searchTerm, doc, sheet, tz, local, exitCode>>

\* the term callback of handleSearch
SearchTerm(term) ==
  /\ pc = "search_term"
  /\ searchTerm' = trim(term)
  /\ RenderAndPrompt(out \cup (IF trim(term) # <<>> THEN {"search_set"} ELSE {"search_cleared"}))
  /\ Leave
  /\ UNCHANGED <<tasks, selectedIndex, view, doc, sheet, tz, local, details, exitCode>>

\* rl.on('SIGINT'): Ctrl-C, whatever the interpreter is waiting for
Sigint ==
  /\ pc \notin {"exited", "crashed"}
  /\ pc' = "exited"
  /\ exitCode' = 0
  /\ out' = out \cup {"bye"}
  /\ UNCHANGED <<tasks, selectedIndex, view, searchTerm, doc, sheet, tz, local, details, inFlight>>

\* switch (command) { ... } of handleCommand, every case but save
switch(input, command) ==
  \/ CmdQuit(command) \/ CmdHelp(command) \/ CmdAdd(command) \/ CmdQuick(command)
  \/ CmdDelete(command) \/ CmdEdit(command) \/ CmdToggle(command) \/ CmdReload(command)
  \/ CmdSearch(command) \/ CmdDetails(command) \/ CmdUp(command) \/ CmdDown(command)
  \/ CmdHome(command) \/ CmdEnd(command) \/ CmdClear(command)
  \/ CmdDefault(input, command)

\* handleCommand(input): const command = input.trim().toLowerCase()
handleCommand(input) == switch(input, toLowerCase(trim(input)))

\* ------------------------------------------------------------ the inputs
\* Lines typed at the main prompt: every case label's canonical word, some
\* aliases and spellings, numbers, and lines that match nothing.
CommandLines ==
  {<<"q","u","i","t">>, <<"Q">>, <<" ","E","x","i","t">>, <<"h","e","l","p">>, <<"a","d","d">>, <<"A">>, <<"q","u","i","c","k">>, <<"d","e","l","e","t","e">>, <<" ","D"," ">>, <<"e","d","i","t">>, <<"t","o","g","g","l","e">>, <<"s","p","a","c","e">>}
  \cup {<<"r","e","l","o","a","d">>, <<"s","e","a","r","c","h">>, <<"/">>, <<"d","e","t","a","i","l","s">>, <<"u","p">>, <<"K">>, <<"d","o","w","n">>, <<"h","o","m","e">>, <<"e","n","d">>, <<"c","l","e","a","r">>}
  \cup {<<>>, <<" ">>, <<"1">>, <<"2">>, <<"3">>, <<"0">>, <<"-","1">>, <<"2","x">>, <<"f","o","o">>}

\* Answers to the title prompts
TitleEntries == {<<>>, <<" ">>, <<"A","l","p","h","a">>, <<" ","B","e","t","a"," ">>}
\* Answers to the search prompt
SearchEntries == {<<>>, <<" ","A","L","P"," ">>, <<"b">>}
\* Answers to the priority prompts
PriorityEntries == {<<>>, <<" ">>, <<"H","o","c","h">>, <<"n","i","e","d","r","i","g">>, <<"u","r","g","e","n","t">>}
\* Answers to the due-date prompts
DateEntries ==
  {<<>>, <<" ">>, <<"k","e","i","n","e">>, <<"2","0","2","4","-","0","3","-","1","5">>, <<"1","5",".","0","3",".","2","0","2","4">>, <<"5",".","3">>, <<"2","9",".","0","2",".","2","0","2","4">>, <<"1",".","1",".","2","0","2","4">>}
  \cup {<<"3","1",".","0","2",".","2","0","2","4">>, <<"1","3",".","1","3",".","2","0","2","4">>, <<"2","0","2","4","-","0","2","-","3","1">>, <<"2","0","2","4","-","1","3","-","1","3">>, <<"2","9",".","0","2",".","2","0","2","3">>, <<"0",".","1">>, <<"m","o","r","g","e","n">>}
\* Answers to the tags prompts
TagEntries == {<<>>, <<" ">>, <<"K","e","i","n","e">>, <<"x">>, <<" ","y"," ",","," ",",","x",",","x"," ">>}
\* What new Date().getFullYear() may return
CurrentYears == {2024, 2025}
\* Time zones the process may run in, hours east of UTC
TimeZones == {-5, 0, 1}

Row(title, status, priority, dueDate, tags) ==
  [title |-> title, status |-> status, priority |-> priority, dueDate |-> dueDate,
   tags |-> tags]

\* What the remote sheet may hold when the program starts
Sheets ==
  { <<>>,
    << Row(<<"A","l","p","h","a">>, <<"d","o","n","e">>, <<>>, <<>>, <<>>),
       Row(<<>>, <<>>, hoch, <<"2","0","2","4","-","0","3","-","0","1">>, <<" ","x",","," ",",","y">>) >> }

\* The state after the module's top-level declarations have run
InitWith(sheets, zones) ==
  /\ tasks = <<>>
  /\ selectedIndex = 0
  /\ view = "main"
  /\ searchTerm = <<>>
  /\ doc = "undefined"
  /\ sheet \in sheets
  /\ tz \in zones
  /\ pc = "start"
  /\ local = NoLocal
  /\ out = {}
  /\ details = <<>>
  /\ inFlight = 0
  /\ exitCode = -1

\* ----------------------------------------------- the interpreter's runs
\* Every command but save, with titles and search terms varied and the other
\* fields left at their defaults.
Init == InitWith(Sheets, {0})

Next ==
  \/ Main
  \/ \E input \in CommandLines : handleCommand(input)
  \/ LoadSettles
  \/ \E title \in TitleEntries : AddTitle(title) \/ QuickTitle(title) \/ EditTitle(title)
  \/ AddPriority(<<>>) \/ EditPriority(<<>>)
  \/ \E y \in CurrentYears : AddDueDate(<<>>, y) \/ EditDueDate(<<>>, y)
  \/ AddTags(<<>>) \/ EditTags(<<>>)
  \/ \E term \in SearchEntries : SearchTerm(term)

Spec == Init /\ [][Next]_vars

\* --------------------------------------------------- the dialogs' runs
\* One title, the list kept short, and the answers to one field's prompts
\* varied: the due-date runs draw the time zone as well.
Alpha == <<"A","l","p","h","a">>

FieldCommands ==
  \/ (Len(tasks) < MaxFieldTasks /\ CmdAdd(<<"a","d","d">>))
  \/ CmdEdit(<<"e","d","i","t">>) \/ CmdUp(<<"u","p">>) \/ CmdDown(<<"d","o","w","n">>)

InitDates == InitWith({<<>>}, TimeZones)

NextDates ==
  \/ Main
  \/ FieldCommands
  \/ AddTitle(Alpha) \/ AddPriority(<<>>) \/ AddTags(<<>>)
  \/ EditTitle(<<>>) \/ EditPriority(<<>>) \/ EditTags(<<>>)
  \/ \E dueDate \in DateEntries, y \in CurrentYears :
       AddDueDate(dueDate, y) \/ EditDueDate(dueDate, y)

SpecDates == InitDates /\ [][NextDates]_vars

InitPriority == InitWith({<<>>}, {0})

NextPriority ==
  \/ Main
  \/ FieldCommands
  \/ AddTitle(Alpha) \/ AddTags(<<>>)
  \/ EditTitle(<<>>) \/ EditTags(<<>>)
  \/ \E y \in CurrentYears : AddDueDate(<<>>, y) \/ EditDueDate(<<>>, y)
  \/ \E priority \in PriorityEntries : AddPriority(priority) \/ EditPriority(priority)

SpecPriority == InitPriority /\ [][NextPriority]_vars

\* ------------------------------------------------ the edit dialog's runs
\* Tasks come from the sheet only, so the second one starts with a due date
\* and tags, and every prompt of the edit dialog gets a few answers; a search
\* may be set meanwhile.
EditTitleEntries == {<<>>, <<" ","B","e","t","a"," ">>}
EditPriorityEntries == {<<>>, <<"H","o","c","h">>, <<"u","r","g","e","n","t">>}
EditDateEntries == {<<>>, <<"K","e","i","n","e">>, <<" ","k","e","i","n","e"," ">>, <<"2","0","2","4","-","0","3","-","1","5">>}
EditTagEntries == {<<>>, <<"K","E","I","N","E">>, <<" ","k","e","i","n","e">>, <<"x">>}
EditSearchEntries == {<<>>, <<"b">>}

InitEdit == InitWith(Sheets, {0})

NextEdit ==
  \/ Main
  \/ CmdEdit(<<"e","d","i","t">>) \/ CmdUp(<<"u","p">>) \/ CmdDown(<<"d","o","w","n">>)
  \/ \E newTitle \in EditTitleEntries : EditTitle(newTitle)
  \/ \E newPriority \in EditPriorityEntries : EditPriority(newPriority)
  \/ \E newDueDate \in EditDateEntries, y \in CurrentYears : EditDueDate(newDueDate, y)
  \/ \E newTags \in EditTagEntries : EditTags(newTags)
  \/ CmdSearch(<<"s","e","a","r","c","h">>)
  \/ \E term \in EditSearchEntries : SearchTerm(term)

SpecEdit == InitEdit /\ [][NextEdit]_vars

\* ------------------------------------------------- the persistence runs
\* Save and reload against a sheet that may fail, with tasks that come from
\* the sheet or from the add dialog and are toggled and deleted in between.
PersistTagEntries == {<<>>, <<" ","y"," ",","," ",",","x",",","x"," ">>}

InitPersist == InitWith(Sheets, {0})

NextPersist ==
  \/ Main
  \/ CmdSave(<<"s","a","v","e">>) \/ SaveSettles
  \/ CmdReload(<<"r","e","l","o","a","d">>) \/ LoadSettles
  \/ LineDropped
  \/ Sigint
  \/ (Len(tasks) < MaxFieldTasks /\ CmdAdd(<<"a","d","d">>))
  \/ CmdDelete(<<"d","e","l","e","t","e">>) \/ CmdToggle(<<"t","o","g","g","l","e">>)
  \/ AddTitle(Alpha) \/ AddPriority(<<>>)
  \/ \E y \in CurrentYears : AddDueDate(<<>>, y)
  \/ \E tags \in PersistTagEntries : AddTags(tags)

SpecPersist == InitPersist /\ [][NextPersist]_vars

\* ======================================================== the properties
\* The positions, in the full list, of the rows of the filtered view.
FilteredPositions(ts, term) ==
  SelectSeq([i \in 1..Len(ts) |-> i],
            LAMBDA i : Len(term) = 0 \/ includes(toLowerCase(ts[i].title), toLowerCase(term)))

\* The position in tasks of the row of the filtered view the cursor is on.
SelectedPosition == FilteredPositions(tasks, searchTerm)[selectedIndex + 1]

SelectionInFilteredView ==
  selectedIndex >= 0 /\ selectedIndex < Len(filteredTasks(tasks, searchTerm))

\* C1: while a search term is active and selectedIndex lies within the
\* filtered view, delete and toggle act on the selectedIndex-th task of the
\* filtered view, and an edit changes no task but that one.
C1_OperatesOnFilteredView ==
  [][ (Len(searchTerm) > 0 /\ SelectionInFilteredView) =>
        /\ (\E c \in deleteAliases : CmdDelete(c))
             => tasks' = deleteTask(tasks, SelectedPosition - 1)
        /\ (\E c \in toggleAliases : CmdToggle(c))
             => tasks' = completeTask(tasks, SelectedPosition - 1)
        /\ (pc = "edit_title" /\ tasks' # tasks)
             => \A i \in 1..Len(tasks) : i # SelectedPosition => tasks'[i] = tasks[i]
    ]_vars

\* C2: whenever the interpreter waits at the main prompt, selectedIndex is
\* not negative and, if the filtered view has L > 0 rows, is below L.
C2_SelectionWithinFilteredView ==
  pc = "prompt" =>
    LET L == Len(filteredTasks(tasks, searchTerm))
    IN  selectedIndex >= 0 /\ (L > 0 => selectedIndex < L)

\* C3: every task's id is its 1-based position in the task list.
C3_IdsArePositions == \A i \in 1..Len(tasks) : tasks[i].id = i

\* C3's case: a delete has left behind the task loaded from the sheet's
\* second row, now first in the list.
C3_Witness ==
  /\ "deleted" \in out
  /\ Len(tasks) >= 1
  /\ tasks[1].title = KeineBeschreibung

\* C4: no turn leaves the interpreter without a pending prompt, and every
\* turn that ends at the main prompt has redrawn the main view.
C4_TurnEndsRenderedAndPrompted ==
  /\ pc \notin {"hung", "crashed"}
  /\ pc = "prompt" => "main_view" \in out

\* C5: a number n typed at the main prompt moves the selection to n-1 iff
\* 1 <= n <= length of the filtered view; any other n reports an error and
\* leaves the selection where it was.
C5_JumpWithinFilteredView ==
  [][ \A input \in CommandLines :
        LET cmd == toLowerCase(trim(input))
            n   == parseInt(cmd)
            L   == Len(filteredTasks(tasks, searchTerm))
        IN  (CmdDefault(input, cmd) /\ trim(input) # <<>> /\ ~n.nan) =>
              IF 1 <= n.val /\ n.val <= L
              THEN selectedIndex' = n.val - 1
              ELSE selectedIndex' = selectedIndex /\ "invalid_number" \in out'
    ]_vars

\* The calendar, as the properties about dates read it.
IsLeapYear(y) == (y % 4 = 0 /\ y % 100 # 0) \/ y % 400 = 0
DaysInMonth(y, m) ==
  IF m = 2 THEN (IF IsLeapYear(y) THEN 29 ELSE 28)
  ELSE IF m \in {4, 6, 9, 11} THEN 30 ELSE 31
MatchesPattern(s) == MatchISO(s) \/ MatchDMY(s) \/ MatchDM(s)
\* year, month and day as written in an entry that matches a pattern
EntryFields(s, currentYear) ==
  IF MatchISO(s)
  THEN [year |-> ToNumber(SubSeq(s, 1, 4)), month |-> ToNumber(SubSeq(s, 6, 7)),
        day |-> ToNumber(SubSeq(s, 9, 10))]
  ELSE LET p == split(s, ".")
       IN  [year |-> IF Len(p) = 3 THEN ToNumber(p[3]) ELSE currentYear,
            month |-> ToNumber(p[2]), day |-> ToNumber(p[1])]
NamesRealDate(s, currentYear) ==
  LET f == EntryFields(s, currentYear)
  IN  f.month \in 1..12 /\ f.day \in 1..DaysInMonth(f.year, f.month)
Canonical(f) == Pad(f.year, 4) \o <<"-">> \o Pad(f.month, 2) \o <<"-">> \o Pad(f.day, 2)

\* C6: a due-date entry that matches a pattern but names no calendar date
\* is rejected with a warning: the add dialog keeps the empty due date and
\* the edit dialog leaves the task as it was.
C6_InvalidDateRejected ==
  [][ \A dueDate \in DateEntries, y \in CurrentYears :
        (MatchesPattern(trim(dueDate)) /\ ~NamesRealDate(trim(dueDate), y)) =>
          /\ AddDueDate(dueDate, y)
               => local'.dueDate = <<>> /\ "invalid_date" \in out'
          /\ EditDueDate(dueDate, y)
               => tasks' = tasks /\ "invalid_date" \in out'
    ]_vars

\* C7: a valid date entered in any of the three formats is stored as the
\* YYYY-MM-DD string of the same year, month and day, and the stored string
\* entered again gives itself.
C7_ValidDateStoredCanonically ==
  [][ \A dueDate \in DateEntries, y \in CurrentYears :
        LET s == trim(dueDate)
            want == Canonical(EntryFields(s, y))
        IN  (MatchesPattern(s) /\ NamesRealDate(s, y)) =>
              /\ AddDueDate(dueDate, y) =>
                   /\ local'.dueDate = want
                   /\ formattedDate(local'.dueDate, y, tz) = [ok |-> TRUE, value |-> want]
              /\ EditDueDate(dueDate, y) =>
                   /\ tasks'[selectedIndex + 1].dueDate = want
                   /\ formattedDate(tasks'[selectedIndex + 1].dueDate, y, tz)
                        = [ok |-> TRUE, value |-> want]
    ]_vars

\* C8: a toggle flips the selected task's status between open and done and
\* changes nothing else, and toggling the task again gives back the list as
\* it was.
C8_ToggleFlipsAndRestores ==
  [][ ((\E c \in toggleAliases : CmdToggle(c)) /\ "toggled" \in out') =>
        /\ {tasks[selectedIndex + 1].status, tasks'[selectedIndex + 1].status}
             = {offen, erledigt}
        /\ tasks' = [tasks EXCEPT ![selectedIndex + 1].status
                                    = tasks'[selectedIndex + 1].status]
        /\ completeTask(tasks', selectedIndex) = tasks
    ]_vars

\* C9: a blank title entry aborts add and quick-add (reported, with tasks,
\* selectedIndex and searchTerm untouched, and the turn over), and every task
\* the two dialogs append has a non-empty, trimmed title.
C9_BlankTitleAborts ==
  [][ /\ \A title \in TitleEntries :
           (trim(title) = <<>> /\ (AddTitle(title) \/ QuickTitle(title))) =>
             /\ UNCHANGED <<tasks, selectedIndex, searchTerm>>
             /\ "aborted_no_title" \in out'
             /\ pc' = "prompt"
      /\ (pc \in {"add_tags", "quick_title"} /\ Len(tasks') = Len(tasks) + 1) =>
           LET t == tasks'[Len(tasks')].title
           IN  t # <<>> /\ trim(t) = t
    ]_vars

\* C9's case: a dialog was aborted for want of a title while the list held
\* a task.
C9_Witness ==
  /\ pc = "prompt"
  /\ "aborted_no_title" \in out
  /\ Len(tasks) > 0

\* C10: the add dialog stores normal for an empty or invalid priority entry
\* and warns for the invalid one only; the edit dialog leaves the priority
\* unchanged for an empty or invalid entry and warns for the invalid one.
C10_PriorityValidated ==
  [][ /\ \A priority \in PriorityEntries :
           LET p       == toLowerCase(trim(priority))
               empty   == p = <<>>
               invalid == ~empty /\ p \notin validPriorities
           IN  /\ AddPriority(priority) =>
                    /\ ("invalid_priority" \in out') <=> invalid
                    /\ (empty \/ invalid) =>
                         (local'.priority \in validPriorities => local'.priority = normal)
                    /\ ~(empty \/ invalid) => local'.priority = p
               /\ EditPriority(priority) =>
                    /\ (empty \/ invalid) => tasks' = tasks
                    /\ ~(empty \/ invalid) => tasks'[selectedIndex + 1].priority = p
                    /\ ("invalid_priority" \in out') <=> invalid
      /\ (pc = "add_tags" /\ pc' = "prompt") =>
           tasks'[Len(tasks')].priority =
             (IF local.priority \in validPriorities THEN local.priority ELSE normal)
    ]_vars

\* An answer that is the clear word, whatever its case and the blanks around
ClearToken(answer) == toLowerCase(trim(answer)) = keine

\* C11: in the edit dialog the clear word, in any case, at the due-date
\* prompt empties the selected task's due date and leads on to the tags
\* prompt, and at the tags prompt it empties the task's tags and ends the
\* dialog; each leaves the rest of the list as it was, so a task that had both
\* ends with dueDate "" and tags [].
C11_ClearTokenEmptiesDateAndTags ==
  [][ /\ \A newDueDate \in EditDateEntries, y \in CurrentYears :
           (ClearToken(newDueDate) /\ EditDueDate(newDueDate, y))
             => /\ tasks' = [tasks EXCEPT ![selectedIndex + 1].dueDate = <<>>]
                /\ selectedIndex' = selectedIndex
                /\ pc' = "edit_tags"
      /\ \A newTags \in EditTagEntries :
           (ClearToken(newTags) /\ EditTags(newTags))
             => /\ tasks' = [tasks EXCEPT ![selectedIndex + 1].tags = <<>>]
                /\ selectedIndex' = selectedIndex
                /\ pc' = "prompt"
                /\ "updated" \in out'
    ]_vars

\* The second task came from the sheet with a due date and tags and can only
\* have lost both to the clear word.
C11_Witness ==
  /\ pc = "prompt"
  /\ "updated" \in out
  /\ Len(tasks) = 2
  /\ selectedIndex = 1
  /\ tasks[2].dueDate = <<>>
  /\ tasks[2].tags = <<>>

\* The positions of ts whose lower-cased title contains the lower-cased term.
MatchingPositions(ts, term) ==
  {i \in 1..Len(ts) : includes(toLowerCase(ts[i].title), toLowerCase(term))}

\* The k-th smallest of a set of positions.
NthOf(positions, k) ==
  CHOOSE i \in positions : Cardinality({j \in positions : j < i}) = k - 1

\* rows is ts cut down to the matching tasks, in the order ts has them.
IsMatchingSubsequence(rows, ts, term) ==
  LET m == MatchingPositions(ts, term)
  IN  /\ Len(rows) = Cardinality(m)
      /\ \A k \in 1..Len(rows) : rows[k] = ts[NthOf(m, k)]

\* C12: for the search term in force and for every term the search prompt
\* can set, the filtered view of the task list is exactly the tasks whose
\* lower-cased title contains the lower-cased term, in list order; with the
\* empty term it is the whole list; and filtering the view again by the same
\* term changes nothing.
C12_FilterIsMatchingSubsequence ==
  \A term \in {searchTerm} \cup {trim(entry) : entry \in SearchEntries} :
    LET rows == filteredTasks(tasks, term)
    IN  /\ term = <<>> => rows = tasks
        /\ term # <<>> => IsMatchingSubsequence(rows, tasks, term)
        /\ filteredTasks(rows, term) = rows

\* A search in capitals that keeps one of two tasks.
C12_Witness ==
  /\ pc = "prompt"
  /\ searchTerm = <<"A","L","P">>
  /\ Len(tasks) = 2
  /\ Len(filteredTasks(tasks, searchTerm)) = 1
  /\ "main_view" \in out

\* C13: details dumps the task at selectedIndex of the filtered view; where
\* the filtered view has no row there (empty list, no match, selectedIndex
\* beyond the view or negative) it reports that nothing is selected, dumps
\* nothing and the turn ends without an error.
C13_DetailsOfFilteredSelection ==
  [][ \A command \in detailsAliases :
        CmdDetails(command) =>
          IF SelectionInFilteredView
          THEN details' = <<filteredTasks(tasks, searchTerm)[selectedIndex + 1]>>
          ELSE /\ details' = <<>>
               /\ "no_details_selected" \in out'
               /\ "error" \notin out'
    ]_vars

\* C14: down moves the selection to min(filteredLength - 1, selectedIndex + 1)
\* and end to filteredLength - 1, or 0 for an empty view; after either the
\* selection is neither below 0 nor past the last row of the filtered view.
C14_DownAndEndWithinFilteredView ==
  [][ LET filteredLength == Len(filteredTasks(tasks, searchTerm))
      IN  /\ \A command \in downAliases :
                CmdDown(command) =>
                  /\ selectedIndex' = Min(filteredLength - 1, selectedIndex + 1)
                  /\ selectedIndex' >= 0
                  /\ selectedIndex' <= Max(0, filteredLength - 1)
          /\ \A command \in endAliases :
                CmdEnd(command) => selectedIndex' = Max(0, filteredLength - 1)
    ]_vars

\* C15: at most one handleCommand call is in flight; one is entered only
\* from the pending main prompt with none in flight, so never while a dialog
\* or a sheet call of an earlier turn is unfinished; and while a turn awaits
\* the sheet, whatever is typed leaves tasks, selectedIndex, searchTerm and
\* the sheet alone.
C15_OneTurnAtATime ==
  /\ [](/\ inFlight \in {0, 1}
        /\ pc = "prompt" => inFlight = 0)
  /\ [][ /\ inFlight' > inFlight => (inFlight = 0 /\ pc = "prompt")
         /\ (pc \in {"loading", "saving"} /\ pc' = pc)
              => UNCHANGED <<tasks, selectedIndex, searchTerm, sheet>>
     ]_vars

\* A save under way with changes the sheet does not have yet.
C15_Witness ==
  /\ pc = "saving"
  /\ inFlight = 1
  /\ Len(tasks) > 0
  /\ rowsFromTasks(tasks) # sheet

\* The messages of a load that did not come through.
LoadFailures == {"load_error", "load_no_connection", "not_connected"}

\* C16: a load that fails, at startup or on reload, does not end the
\* process: the step that finishes it leaves the task list empty or as it
\* was and ends at a new main prompt.
C16_FailedLoadKeepsRunning ==
  [][ ((Main \/ LoadSettles \/ \E command \in reloadAliases : CmdReload(command))
         /\ out' \cap LoadFailures # {})
        => /\ pc' = "prompt"
           /\ exitCode' = -1
           /\ tasks' = <<>> \/ tasks' = tasks
    ]_vars

\* A reload that failed although the sheet has rows.
C16_Witness ==
  /\ pc = "prompt"
  /\ {"load_error", "reloaded"} \subseteq out
  /\ doc = "loaded"
  /\ tasks = <<>>
  /\ Len(sheet) > 0
  /\ exitCode = -1

\* C17: when a save has come through, the sheet's rows are the current
\* tasks, one row per task in list order, with the tags joined by commas,
\* whatever the sheet held before; and a load of these rows that comes
\* through yields the task list as it is, ids included.
C17_SaveThenLoadRoundTrip ==
  [][ (SaveSettles /\ "saved" \in out') =>
        /\ Len(sheet') = Len(tasks)
        /\ \A i \in 1..Len(tasks) :
             /\ sheet'[i].title = tasks[i].title
             /\ sheet'[i].status = tasks[i].status
             /\ sheet'[i].priority = tasks[i].priority
             /\ sheet'[i].dueDate = tasks[i].dueDate
             /\ sheet'[i].tags = join(tasks[i].tags, ",")
        /\ loadTasks(tasks, doc, sheet', TRUE).tasks = tasks
        /\ tasks' = tasks
    ]_vars

\* A save that came through, of a list with a task that has several tags,
\* over a sheet that held something else.
C17_Witness ==
  /\ pc = "prompt"
  /\ "saved" \in out
  /\ sheet = rowsFromTasks(tasks)
  /\ sheet \notin Sheets
  /\ \E i \in 1..Len(tasks) : Len(tasks[i].tags) >= 2

\* C18: whenever the main prompt is pending, quit, q and exit are taken; the
\* step ends the process with exit code 0, leaves the sheet and the tasks
\* as they are and prints no save message; and once the process has exited
\* nothing happens any more, so no further prompt is issued.
C18_QuitExitsAtOnce ==
  /\ [](pc = "prompt" => \A command \in quitAliases : ENABLED CmdQuit(command))
  /\ [][ /\ \A command \in quitAliases :
              CmdQuit(command) =>
                /\ pc' = "exited"
                /\ exitCode' = 0
                /\ sheet' = sheet
                /\ tasks' = tasks
                /\ out' \cap {"saved", "save_error", "save_no_connection", "main_view"} = {}
         /\ pc = "exited" => UNCHANGED vars
     ]_vars

\* The process has quit with tasks the sheet does not have.
C18_Witness ==
  /\ pc = "exited"
  /\ exitCode = 0
  /\ out = {"bye"}
  /\ doc = "loaded"
  /\ Len(tasks) > Len(sheet)

\* selectedIndex names a task of the list.
SelectionInList ==
  Len(tasks) > 0 /\ 0 <= selectedIndex /\ selectedIndex < Len(tasks)

\* C19: when selectedIndex names no task of the list, toggle, edit, delete
\* and details leave the tasks alone, report that nothing is selected (for
\* delete: that there is nothing to delete) and end at the main prompt with
\* no error raised and the session alive.
C19_SelectionGuarded ==
  [][ ~SelectionInList =>
        /\ \A command \in toggleAliases :
             CmdToggle(command) => "no_toggle_selected" \in out'
        /\ \A command \in editAliases :
             CmdEdit(command) => "no_edit_selected" \in out'
        /\ \A command \in detailsAliases :
             CmdDetails(command) => "no_details_selected" \in out'
        /\ \A command \in deleteAliases :
             CmdDelete(command) => out' \cap {"nothing_to_delete", "no_delete_selected"} # {}
        /\ (\E command \in toggleAliases \cup editAliases \cup detailsAliases \cup deleteAliases :
              CmdToggle(command) \/ CmdEdit(command) \/ CmdDetails(command) \/ CmdDelete(command))
             => /\ tasks' = tasks
                /\ pc' = "prompt"
                /\ "error" \notin out'
                /\ exitCode' = -1
    ]_vars

\* C20: with no search term set, a delete on a selected task shortens the
\* list by one: the tasks before the selected one stay as they are, the ones
\* after it move up one place with title, status, priority, dueDate and tags
\* unchanged, and every id is the task's new position.
C20_DeleteRemovesSelectedTask ==
  [][ \A command \in deleteAliases :
        (CmdDelete(command) /\ searchTerm = <<>> /\ SelectionInList) =>
          /\ Len(tasks') = Len(tasks) - 1
          /\ \A i \in 1..Len(tasks') :
               LET old == IF i <= selectedIndex THEN tasks[i] ELSE tasks[i + 1]
               IN  /\ tasks'[i].title = old.title
                   /\ tasks'[i].status = old.status
                   /\ tasks'[i].priority = old.priority
                   /\ tasks'[i].dueDate = old.dueDate
                   /\ tasks'[i].tags = old.tags
                   /\ tasks'[i].id = i
          /\ "deleted" \in out'
    ]_vars

\* Two tasks were added and the first deleted: the second is left, as task 1.
C20_Witness ==
  /\ pc = "prompt"
  /\ "deleted" \in out
  /\ searchTerm = <<>>
  /\ selectedIndex = 0
  /\ Len(tasks) = 1
  /\ tasks[1].title = <<"B","e","t","a">>
  /\ tasks[1].id = 1

\* Two tasks that agree in every field but the named one.
SameBut(t, u, field) ==
  \A f \in {"id", "title", "status", "priority", "dueDate", "tags"} \ {field} : t[f] = u[f]

InEditDialog == pc \in {"edit_title", "edit_priority", "edit_due", "edit_tags"}

\* The field the pending prompt of the edit dialog asks for.
EditedField ==
  CASE pc = "edit_title" -> "title"
    [] pc = "edit_priority" -> "priority"
    [] pc = "edit_due" -> "dueDate"
    [] OTHER -> "tags"

\* A step of the edit dialog changes at most the asked field of one task,
\* nothing at all on an empty answer, and neither the list's length and
\* order nor selectedIndex nor searchTerm; entering the dialog changes none
\* of them either.
EditKeepsFrame ==
  /\ InEditDialog =>
       /\ Len(tasks') = Len(tasks)
       /\ selectedIndex' = selectedIndex
       /\ searchTerm' = searchTerm
       /\ \A i \in 1..Len(tasks) : SameBut(tasks'[i], tasks[i], EditedField)
       /\ Cardinality({i \in 1..Len(tasks) : tasks'[i] # tasks[i]}) <= 1
  /\ \A newTitle \in EditTitleEntries :
       (EditTitle(newTitle) /\ trim(newTitle) = <<>>) => tasks' = tasks
  /\ \A newPriority \in EditPriorityEntries :
       (EditPriority(newPriority) /\ trim(newPriority) = <<>>) => tasks' = tasks
  /\ \A newDueDate \in EditDateEntries, y \in CurrentYears :
       (EditDueDate(newDueDate, y) /\ trim(newDueDate) = <<>>) => tasks' = tasks
  /\ \A newTags \in EditTagEntries :
       (EditTags(newTags) /\ trim(newTags) = <<>>) => tasks' = tasks
  /\ \A command \in editAliases :
       CmdEdit(command) => UNCHANGED <<tasks, selectedIndex, searchTerm>>

\* At the title prompt, the first of the dialog, the task that changes is the
\* row of the filtered view the cursor is on.
EditAddressesSelectedRow ==
  pc = "edit_title" =>
    \A i \in 1..Len(tasks) :
      tasks'[i] # tasks[i] => (SelectionInFilteredView /\ i = SelectedPosition)

\* C21: an edit changes only those fields of the selected task for which a
\* non-empty answer was accepted: an empty answer keeps the field, and id,
\* status, every other task, the list's length and order, selectedIndex and
\* searchTerm stay as they are.
C21_EditChangesSelectedTaskOnly ==
  [][EditKeepsFrame /\ EditAddressesSelectedRow]_vars

\* A line that is an integer numeral: an optional sign and then digits only.
IsInteger(s) ==
  LET body == IF Len(s) > 0 /\ s[1] \in {"-", "+"} THEN Tail(s) ELSE s
  IN  Len(body) > 0 /\ AllDigits(body)

\* C22: a line that matches no command falls to the default rule: an empty
\* line reports nothing and leaves tasks, selectedIndex and searchTerm alone;
\* a line that is an integer is taken as a jump; any other line reports an
\* unknown command and leaves tasks, selectedIndex and searchTerm alone.
C22_FallbackRule ==
  [][ \A input \in CommandLines :
        LET command == toLowerCase(trim(input))
        IN  CmdDefault(input, command) =>
              IF command = <<>>
              THEN /\ out' = {"main_view"}
                   /\ UNCHANGED <<tasks, selectedIndex, searchTerm>>
              ELSE IF IsInteger(command)
              THEN /\ out' \cap {"jumped", "invalid_number"} # {}
                   /\ "unknown_command" \notin out'
                   /\ UNCHANGED <<tasks, searchTerm>>
              ELSE /\ "unknown_command" \in out'
                   /\ UNCHANGED <<tasks, selectedIndex, searchTerm>>
    ]_vars

\* Every tag of every task is non-empty and has no blank at either end.
TagsTrimmed ==
  \A i \in 1..Len(tasks) :
    \A k \in 1..Len(tasks[i].tags) :
      /\ tasks[i].tags[k] # <<>>
      /\ trim(tasks[i].tags[k]) = tasks[i].tags[k]

\* The tags each answer to the add dialog's tags prompt stands for: its
\* segments in the order typed, repeats kept.
EnteredTags ==
  [tags \in PersistTagEntries |->
     IF tags = <<>> THEN <<>> ELSE << <<"y">>, <<"x">>, <<"x">> >>]

\* C23: in every reachable state, the ones after a load included, every tag
\* of every task is a non-empty string with no blank at either end; and the
\* tags of an added task are the entered ones in the order typed, repeats
\* kept.
C23_TagsTrimmedInOrder ==
  /\ []TagsTrimmed
  /\ [][ \A tags \in PersistTagEntries :
           AddTags(tags) => tasks'[Len(tasks')].tags = EnteredTags[tags]
     ]_vars

====
